---- MODULE Spec2Model ----
(***************************************************************************)
(* UnifiedPriceScraper.py: the per-target fetch-and-extract cascade of     *)
(* UnifiedScraper (run, _scrape_amazon, the three site-A strategies,       *)
(* _scrape_ebazaar) and the round-robin pool of proxy API keys             *)
(* (_get_next_api_key, _mark_key_failed).                                  *)
(*                                                                         *)
(* One run of UnifiedScraper.run is a sequential process; pc is its        *)
(* position.  Every await on the network or the browser is a step whose    *)
(* outcome the environment chooses.  The pacing sleeps change no state and *)
(* are not steps.                                                          *)
(***************************************************************************)
EXTENDS Naturals, Integers, Sequences, FiniteSets, TLC

\* ------------------------------------------------------------------ bounds
MaxKeys == 2        \* SCRAPER_API_KEY_i variables that are set (the code reads up to 7)
MaxTargets == 2     \* rows of the input CSV
MaxContainers == 2  \* price containers of a site-B page
MaxCalls == 4       \* calls of _get_next_api_key made on the pool on its own
ProxyKeys == 4      \* keys of the pools _scrape_amazon_api is run on, on its own

\* ------------------------------------------------------- program constants
RetryCap == 3               \* max_retries = min(3, len(self.api_keys))

\* ---------------------------------------------------------------- strings
\* Sentinel strings of the code and the lists that test for them.
NA == "N/A"
ERROR == "Error"
CAPTCHA == "CAPTCHA"
NOKEY == "No API Key"
EMPTY == ""
NONE == "None"              \* Python's None where a string is expected

\* invalid = ['N/A', 'Error', 'CAPTCHA', 'Blocked', '', 'No API Key', None]
invalid == {NA, ERROR, CAPTCHA, "Blocked", EMPTY, NOKEY, NONE}

Min(a, b) == IF a <= b THEN a ELSE b

\* The characters of the strings that pages carry as element text.
Chars(text) ==
    CASE text = "$10" -> {"$", "1", "0"}
      [] text = "$20" -> {"$", "2", "0"}
      [] text = "₹20" -> {"₹", "2", "0"}
      [] text = "10"  -> {"1", "0"}
      [] OTHER        -> {}

\* str.lower() on the words a page body is made of.
Lower(word) ==
    CASE word = "CAPTCHA" -> "captcha"
      [] word = "Captcha" -> "captcha"
      [] word = "Robot"   -> "robot"
      [] OTHER            -> word

\* 'captcha' in html.lower(): html is the sequence of its words.
ContainsLower(body, word) == \E i \in 1..Len(body) : Lower(body[i]) = word

\* A test that looks at the selling price only.
_is_valid_price_selling_only(mrp, selling) == selling \notin invalid

\* --------------------------------------------------------- _is_valid_price
_is_valid_price(mrp, selling) == selling \notin invalid /\ mrp \notin invalid

\* ------------------------------------------------------ _parse_amazon_prices
\* A page, as the parser sees it: what soup.select_one returns for each of the
\* five selling selectors and each of the four mrp selectors (NoEl: no match),
\* and the words of the body.
NoEl == [text |-> "None", strike |-> FALSE, textprice |-> FALSE]

El(t, s, p) == [text |-> t, strike |-> s, textprice |-> p]

HasCurrency(text) == text # EMPTY /\ ("$" \in Chars(text) \/ "₹" \in Chars(text))

\* The selling loop: the first selector whose element has currency text and
\* neither a data-a-strike="true" ancestor nor an a-text-price ancestor.
RECURSIVE SellingFrom(_, _)
SellingFrom(els, i) ==
    IF i > Len(els) THEN NA
    ELSE IF els[i] # NoEl /\ HasCurrency(els[i].text)
            /\ ~els[i].strike /\ ~els[i].textprice
         THEN els[i].text
         ELSE SellingFrom(els, i + 1)

\* The mrp loop: the first selector whose element has currency text.
RECURSIVE MrpFrom(_, _)
MrpFrom(els, i) ==
    IF i > Len(els) THEN NA
    ELSE IF els[i] # NoEl /\ HasCurrency(els[i].text)
         THEN els[i].text
         ELSE MrpFrom(els, i + 1)

\* A parser without the default fill of lines 305-306.
_parse_amazon_prices_nofill(html) ==
    <<MrpFrom(html.mrp, 1), SellingFrom(html.selling, 1)>>

_parse_amazon_prices(html) ==
    LET selling_price == SellingFrom(html.selling, 1)
        found == MrpFrom(html.mrp, 1)
        mrp == IF found = NA /\ selling_price # NA THEN selling_price ELSE found
    IN  <<mrp, selling_price>>

\* ------------------------------------------------------- _get_next_api_key
\* The while loop of _get_next_api_key from cursor cur after `attempts` skipped
\* keys; the result is the returned key and id with the pool state it leaves.
RECURSIVE GetNextLoop(_, _, _, _)
GetNextLoop(keys, cur, failed, attempts) ==
    IF attempts < Len(keys)
    THEN LET kid == cur + 1
             nxt == (cur + 1) % Len(keys)
         IN  IF kid \in failed
             THEN GetNextLoop(keys, nxt, failed, attempts + 1)
             ELSE [key |-> keys[cur + 1], key_id |-> kid, index |-> nxt,
                   failed |-> failed, reset |-> FALSE]
    ELSE [key |-> keys[1], key_id |-> 1, index |-> 1 % Len(keys),
          failed |-> {}, reset |-> TRUE]

\* A pool that stops at the end of a full cycle instead of resetting.
_get_next_api_key_noreset(keys, cur, failed) ==
    LET r == GetNextLoop(keys, cur, failed, 0)
    IN  IF Len(keys) = 0 \/ r.reset
        THEN [key |-> NONE, key_id |-> 0, index |-> cur, failed |-> failed,
              reset |-> FALSE]
        ELSE r

\* A pool that returns the key under the cursor without looking at failed_keys.
_get_next_api_key_noskip(keys, cur, failed) ==
    IF Len(keys) = 0
    THEN [key |-> NONE, key_id |-> 0, index |-> cur, failed |-> failed,
          reset |-> FALSE]
    ELSE [key |-> keys[cur + 1], key_id |-> cur + 1,
          index |-> (cur + 1) % Len(keys), failed |-> failed, reset |-> FALSE]

\* A pool that starts every search at the first key of the list.
_get_next_api_key_restart(keys, cur, failed) ==
    IF Len(keys) = 0
    THEN [key |-> NONE, key_id |-> 0, index |-> cur, failed |-> failed,
          reset |-> FALSE]
    ELSE GetNextLoop(keys, 0, failed, 0)

\* A pool whose reset leaves the cursor at 1 whatever the length of the list.
_get_next_api_key_nowrap(keys, cur, failed) ==
    IF Len(keys) = 0
    THEN [key |-> NONE, key_id |-> 0, index |-> cur, failed |-> failed,
          reset |-> FALSE]
    ELSE LET r == GetNextLoop(keys, cur, failed, 0)
         IN  IF r.reset THEN [r EXCEPT !.index = 1] ELSE r

\* key_id = 0 stands for the None the method returns on an empty list.
_get_next_api_key(keys, cur, failed) ==
    IF Len(keys) = 0
    THEN [key |-> NONE, key_id |-> 0, index |-> cur, failed |-> failed,
          reset |-> FALSE]
    ELSE GetNextLoop(keys, cur, failed, 0)

\* A mark that replaces the set by the id marked.
_mark_key_failed_replace(failed, kid) == {kid}

_mark_key_failed(failed, kid) == failed \cup {kid}

\* ------------------------------------------------- _scrape_ebazaar, the script
\* A site-B page, as the script of page.evaluate sees it: the data-price-amount
\* of the finalPrice and oldPrice elements ("None": no such element, "": no
\* attribute) and, per price container, the tokens its text gives for the
\* regular expression.
ParseFloat(tok) ==
    CASE tok = "10" -> 10
      [] tok = "$10" -> 10
      [] tok = "20" -> 20
      [] tok = "$20" -> 20
      [] OTHER -> 0

\* '$' + n.toFixed(2)
DollarFixed(n) ==
    CASE n = 10 -> "$10.00"
      [] n = 20 -> "$20.00"
      [] OTHER -> "$0.00"

Truthy(s) == s # EMPTY /\ s # NONE

SeqMin(nums) == CHOOSE m \in {nums[i] : i \in 1..Len(nums)} :
                    \A i \in 1..Len(nums) : m <= nums[i]

SeqMax(nums) == CHOOSE m \in {nums[i] : i \in 1..Len(nums)} :
                    \A i \in 1..Len(nums) : m >= nums[i]

\* for (const container of containers) { ... }
RECURSIVE ScanContainers(_, _, _, _)
ScanContainers(containers, i, sellingPrice, mrp) ==
    IF i > Len(containers) THEN <<mrp, sellingPrice>>
    ELSE LET prices == containers[i]
             nums == [k \in 1..Len(prices) |-> ParseFloat(prices[k])]
         IN  IF Len(prices) >= 2
             THEN <<IF ~Truthy(mrp) THEN DollarFixed(SeqMax(nums)) ELSE mrp,
                    IF ~Truthy(sellingPrice) THEN DollarFixed(SeqMin(nums))
                    ELSE sellingPrice>>
             ELSE IF Len(prices) = 1 /\ ~Truthy(sellingPrice)
                  THEN ScanContainers(containers, i + 1, prices[1], mrp)
                  ELSE ScanContainers(containers, i + 1, sellingPrice, mrp)

\* The script's return value { mrp, sellingPrice }, as <<mrp, sellingPrice>>.
EbazaarEvaluate(page) ==
    LET sp0 == IF Truthy(page.finalPrice)
               THEN DollarFixed(ParseFloat(page.finalPrice)) ELSE EMPTY
        mrp0 == IF Truthy(page.oldPrice)
                THEN DollarFixed(ParseFloat(page.oldPrice)) ELSE EMPTY
        scanned == IF ~Truthy(sp0) \/ ~Truthy(mrp0)
                   THEN ScanContainers(page.containers, 1, sp0, mrp0)
                   ELSE <<mrp0, sp0>>
        sp == scanned[2]
        mrp == IF ~Truthy(scanned[1]) /\ Truthy(sp) THEN sp ELSE scanned[1]
    IN  <<mrp, sp>>

\* data.get(...).strip() or "N/A"  (the strings here carry no outer blanks)
OrNA(s) == IF s = EMPTY THEN NA ELSE s

\* ------------------------------------------------------------------ inputs
NAN == "NaN"                \* pandas' value for an absent cell
URL_A == "http://a"
URL_B == "http://b"

\* str(x).strip() on the link cells
Strip(s) == IF s = " " THEN EMPTY ELSE s

\* A test that takes a cell of blanks for a link.
HasLinkNoStrip(link) == link # NAN

\* pd.notna(row.get(link)) and str(row[link]).strip()
HasLink(link) == link # NAN /\ Strip(link) # EMPTY

AmazonLinks == {" ", URL_A}
EbazaarLinks == {NAN, URL_B}

\* The rows of the CSV; model_name is the row's position.
Rows(n) == {t \in [1..n -> [model_name : 1..n, amazon_link : AmazonLinks,
                            ebazaar_link : EbazaarLinks]] :
               \A i \in 1..n : t[i].model_name = i}

\* The key lists __init__ can load: the set variables, in order.
KeyLists == {[i \in 1..n |-> i + 100] : n \in 0..MaxKeys}

\* Site-A pages the environment serves.
APage(s1, s5, m1, body) ==
    [selling |-> <<s1, NoEl, NoEl, NoEl, s5>>,
     mrp |-> <<m1, NoEl, NoEl, NoEl>>, body |-> body]

\* Selector 1 finds a struck-through price throughout; a selling price, where
\* there is one, is what the last selector finds.
Struck == El("$20", TRUE, FALSE)

Pages ==
    {APage(Struck, El("$10", FALSE, FALSE), NoEl, <<>>),
     APage(Struck, NoEl, El("$20", FALSE, TRUE), <<>>),
     APage(Struck, NoEl, NoEl, <<>>),
     APage(Struck, El("$10", FALSE, FALSE), NoEl, <<"CAPTCHA">>),
     APage(Struck, El("$10", FALSE, FALSE), NoEl, <<"Robot">>)}

\* Site-B pages the environment serves.
BPage(f, o, c) == [finalPrice |-> f, oldPrice |-> o, containers |-> c]

EbazaarPages == {BPage("10", "20", <<>>)}

\* Status codes the direct request and the proxy answer with; 0: the request
\* raised (network error, timeout).
Statuses == {0, 200, 401, 403, 429, 500}

\* --------------------------------------------------------------- responses
NoPage == APage(NoEl, NoEl, NoEl, <<>>)

NoResp == [status |-> 0, html |-> NoPage]

\* What an HTTP GET can give: a status with a body, or (status 0) an exception.
Responses == {[status |-> st, html |-> NoPage] : st \in Statuses \ {200}}
             \cup {[status |-> 200, html |-> h] : h \in Pages}

BotMarked(html) == ContainsLower(html.body, "captcha") \/ ContainsLower(html.body, "robot")

\* A direct request that parses every 200 body, challenge page or not.
DirectResultNoCheck(resp) ==
    IF resp.status = 200 THEN _parse_amazon_prices(resp.html) ELSE <<NA, NA>>

\* _scrape_amazon_direct: the value returned for a response.
DirectResult(resp) ==
    IF resp.status = 0 THEN <<NA, NA>>
    ELSE IF resp.status = 200
         THEN IF BotMarked(resp.html) THEN <<CAPTCHA, CAPTCHA>>
              ELSE _parse_amazon_prices(resp.html)
         ELSE <<NA, NA>>

\* _scrape_amazon_playwright after the context is open: new_page, goto and
\* content either raise or give the rendered page.
PlaywrightOutcomes == {[kind |-> k, html |-> NoPage] : k \in {"page_fail", "nav_fail"}}
                      \cup {[kind |-> "ok", html |-> h] : h \in Pages}

PlaywrightResult(out) ==
    IF out.kind # "ok" THEN <<NA, NA>>
    ELSE IF BotMarked(out.html) THEN <<CAPTCHA, CAPTCHA>>
         ELSE _parse_amazon_prices(out.html)

\* _scrape_ebazaar after the context is open.
EbazaarOutcomes == {[kind |-> k, page |-> BPage(NONE, NONE, <<>>)] :
                        k \in {"page_fail", "nav_fail"}}
                   \cup {[kind |-> "ok", page |-> g] : g \in EbazaarPages}

EbazaarResult(out) ==
    IF out.kind # "ok" THEN <<ERROR, ERROR>>
    ELSE LET data == EbazaarEvaluate(out.page)
         IN  <<OrNA(data[1]), OrNA(data[2])>>

\* ------------------------------------------------------------------- state
VARIABLES
    api_keys,           \* self.api_keys
    current_key_index,  \* self.current_key_index
    failed_keys,        \* self.failed_keys
    browser,            \* self.browser: "none", "open", "closed"
    contexts,           \* browsing contexts that are open
    df_input,           \* the rows read from the CSV
    idx,                \* rows processed so far (the loop index of run)
    product,            \* the ProductComparison being filled
    products,           \* the output list
    pc,                 \* position of run
    attempt,            \* the loop index of _scrape_amazon_api
    api_key,            \* api_key of _scrape_amazon_api (0: none yet)
    key_id,             \* key_id of _scrape_amazon_api (0: none yet)
    called,             \* history: the strategies called for the row's current site
    last_result,        \* history: what the last of them returned (Pending: not yet)
    last_resp,          \* history: the HTTP response the last step received
    api_last,           \* history: key id and status of the row's last proxy call
    api_used,           \* history: ids of the keys the row's proxy calls used
    api_calls,          \* history: number of proxy calls made for the row
    api_reset,          \* history: the row's last _get_next_api_key cleared failed_keys
    got_401,            \* history: ids of the keys the proxy answered 401 for
    doc,                \* an input handed to a pure function on its own
    doc_out             \* what the function returned for it

vars == <<api_keys, current_key_index, failed_keys, browser, contexts, df_input,
          idx, product, products, pc, attempt, api_key, key_id, called,
          last_result, last_resp, api_last, api_used, api_calls, api_reset,
          got_401, doc, doc_out>>

\* The input and output of a function applied on its own.
extract == <<doc, doc_out>>

NoDoc == [kind |-> "none"]

\* The proxy-call history of a row.
api_hist == <<api_last, api_used, api_calls, api_reset>>

\* The strategy-call history of a row's site.
call_hist == <<called, last_result, last_resp>>

\* The locals of _scrape_amazon_api.
api_locals == <<attempt, api_key, key_id>>

Pending == <<"pending", "pending">>

NoCall == [key_id |-> 0, status |-> 0]

pool == <<api_keys, current_key_index, failed_keys>>

total == Len(df_input)

row == df_input[idx + 1]

\* ProductComparison(model_name=..., amazon_link=..., ebazaar_link=...)
ProductComparison(r) ==
    [model_name |-> r.model_name, amazon_method |-> EMPTY, amazon_mrp |-> EMPTY,
     amazon_selling_price |-> EMPTY, ebazaar_mrp |-> EMPTY,
     ebazaar_selling_price |-> EMPTY, amazon_link |-> r.amazon_link,
     ebazaar_link |-> r.ebazaar_link]

NoProduct == [model_name |-> 0, amazon_method |-> EMPTY, amazon_mrp |-> EMPTY,
              amazon_selling_price |-> EMPTY, ebazaar_mrp |-> EMPTY,
              ebazaar_selling_price |-> EMPTY, amazon_link |-> EMPTY,
              ebazaar_link |-> EMPTY]

\* A loop that tries every key of the list.
max_retries_all == Len(api_keys)

max_retries == Min(RetryCap, Len(api_keys))

Init ==
    /\ api_keys \in KeyLists
    /\ current_key_index = 0
    /\ failed_keys = {}
    /\ browser = "none"
    /\ contexts = 0
    /\ df_input \in UNION {Rows(n) : n \in 0..MaxTargets}
    /\ idx = 0
    /\ product = NoProduct
    /\ products = <<>>
    /\ pc = "start"
    /\ attempt = 0
    /\ api_key = 0
    /\ key_id = 0
    /\ called = <<>>
    /\ last_result = Pending
    /\ last_resp = NoResp
    /\ api_last = NoCall
    /\ api_used = {}
    /\ api_calls = 0
    /\ api_reset = FALSE
    /\ got_401 = {}
    /\ doc = NoDoc
    /\ doc_out = Pending

\* A run that appends the row without processing its site-B link.
AfterAmazonSkipB == "append"

\* ----------------------------------------------------------------- actions
\* run, lines 100-111: where the row goes once site A is settled.
AfterAmazon == IF HasLink(row.ebazaar_link) THEN "ebazaar" ELSE "append"

\* run, lines 101-104, on the return of _scrape_amazon.
AmazonReturn(res, method) ==
    /\ product' = [product EXCEPT !.amazon_mrp = res[1],
                                  !.amazon_selling_price = res[2],
                                  !.amazon_method = method]
    /\ pc' = AfterAmazon

\* A cascade that never stops at a usable result.
CascadeStepNoStop(res, method, nextpc) == pc' = nextpc /\ UNCHANGED product

\* _scrape_amazon, lines 143-145 and 150-152: return a valid result with its
\* method tag, or go on to the next method.
CascadeStep(res, method, nextpc) ==
    IF _is_valid_price(res[1], res[2])
    THEN AmazonReturn(res, method)
    ELSE pc' = nextpc /\ UNCHANGED product

\* run, lines 87-88: the browser is launched (or the launch raises).
SetupBrowser ==
    /\ pc = "start"
    /\ \E ok \in BOOLEAN :
          IF ok THEN browser' = "open" /\ pc' = "row"
          ELSE browser' = browser /\ pc' = "launch_failed"
    /\ UNCHANGED <<pool, contexts, df_input, idx, product, products, api_locals,
                   call_hist, api_hist, got_401, extract>>

\* run, lines 91-100: the next row starts.
RowStart ==
    /\ pc = "row"
    /\ idx < total
    /\ product' = ProductComparison(row)
    /\ pc' = IF HasLink(row.amazon_link) THEN "amazon_direct" ELSE AfterAmazon
    /\ UNCHANGED <<pool, browser, contexts, df_input, idx, products, api_locals,
                   call_hist, api_hist, got_401, extract>>

\* _scrape_amazon, method A.
AmazonDirect ==
    /\ pc = "amazon_direct"
    /\ \E resp \in {r \in Responses : r.status \in {0, 200, 500}} :
          LET res == DirectResult(resp)
          IN  /\ called' = Append(called, "A")
              /\ last_result' = res
              /\ last_resp' = resp
              /\ CascadeStep(res, "A", "amazon_playwright")
    /\ UNCHANGED <<pool, browser, contexts, df_input, idx, products, api_locals,
                   api_hist, got_401, extract>>

\* A method B that takes a key from the pool before it opens its context.
PlaywrightOpenWithKey ==
    /\ pc = "amazon_playwright"
    /\ called' = Append(called, "B")
    /\ last_resp' = NoResp
    /\ LET r == _get_next_api_key(api_keys, current_key_index, failed_keys)
       IN  current_key_index' = r.index /\ failed_keys' = r.failed
    /\ \E ok \in BOOLEAN :
          IF ok
          THEN /\ contexts' = contexts + 1
               /\ pc' = "amazon_playwright_page"
               /\ last_result' = Pending
          ELSE /\ last_result' = <<NA, NA>>
               /\ pc' = "amazon_api"
               /\ UNCHANGED contexts
    /\ UNCHANGED <<api_keys, browser, df_input, idx, product, products,
                   api_locals, api_hist, got_401, extract>>

\* _scrape_amazon, method B: browser.new_context gives a context or raises
\* (the exception is caught: "N/A", "N/A").
PlaywrightOpen ==
    /\ pc = "amazon_playwright"
    /\ called' = Append(called, "B")
    /\ last_resp' = NoResp
    /\ \E ok \in BOOLEAN :
          IF ok
          THEN /\ contexts' = contexts + 1
               /\ pc' = "amazon_playwright_page"
               /\ last_result' = Pending
          ELSE /\ last_result' = <<NA, NA>>
               /\ pc' = "amazon_api"
               /\ UNCHANGED contexts
    /\ UNCHANGED <<pool, browser, df_input, idx, product, products, api_locals,
                   api_hist, got_401, extract>>

\* _scrape_amazon, method B: the page is fetched and the context closed.
PlaywrightFetch ==
    /\ pc = "amazon_playwright_page"
    /\ \E out \in PlaywrightOutcomes :
          LET res == PlaywrightResult(out)
          IN  /\ last_result' = res
              /\ CascadeStep(res, "B", "amazon_api")
    /\ contexts' = contexts - 1
    /\ UNCHANGED <<pool, browser, df_input, idx, products, api_locals, called,
                   last_resp, api_hist, got_401, extract>>

\* A return of method C that replaces an unusable result by a generic value.
ApiReturnGeneric(res) ==
    /\ last_result' = res
    /\ attempt' = 0
    /\ api_key' = 0
    /\ key_id' = 0
    /\ AmazonReturn(IF _is_valid_price(res[1], res[2]) THEN res ELSE <<NA, NA>>,
                    IF _is_valid_price(res[1], res[2]) THEN "C" ELSE "X")

\* _scrape_amazon, lines 156-161: method C returned res.
ApiReturn(res) ==
    /\ last_result' = res
    /\ attempt' = 0
    /\ api_key' = 0
    /\ key_id' = 0
    /\ AmazonReturn(res, IF _is_valid_price(res[1], res[2]) THEN "C" ELSE "X")

\* An entry of method C that does not look at the list first.
ApiEnterNoCheck ==
    /\ pc = "amazon_api"
    /\ called' = Append(called, "C")
    /\ attempt' = 0
    /\ pc' = "api_loop"
    /\ last_result' = Pending
    /\ UNCHANGED <<product, api_key, key_id>>
    /\ UNCHANGED <<pool, browser, contexts, df_input, idx, products, last_resp,
                   api_hist, got_401, extract>>

\* _scrape_amazon_api, lines 216-220: entry.
ApiEnter ==
    /\ pc = "amazon_api"
    /\ called' = Append(called, "C")
    /\ IF Len(api_keys) = 0
       THEN ApiReturn(<<NOKEY, NOKEY>>)
       ELSE /\ attempt' = 0
            /\ pc' = "api_loop"
            /\ last_result' = Pending
            /\ UNCHANGED <<product, api_key, key_id>>
    /\ UNCHANGED <<pool, browser, contexts, df_input, idx, products, last_resp,
                   api_hist, got_401, extract>>

\* _scrape_amazon_api, lines 222-227: the loop takes the next key.
ApiNextKey ==
    /\ pc = "api_loop"
    /\ attempt < max_retries
    /\ LET r == _get_next_api_key(api_keys, current_key_index, failed_keys)
       IN  /\ current_key_index' = r.index
           /\ failed_keys' = r.failed
           /\ api_reset' = r.reset
           /\ IF r.key_id = 0
              THEN ApiReturn(<<NOKEY, NOKEY>>)
              ELSE /\ api_key' = r.key
                   /\ key_id' = r.key_id
                   /\ pc' = "api_call"
                   /\ UNCHANGED <<product, last_result, attempt>>
    /\ last_resp' = NoResp
    /\ UNCHANGED <<api_keys, browser, contexts, df_input, idx, products,
                   called, api_last, api_used, api_calls, got_401, extract>>

\* _scrape_amazon_api, line 259: the loop has run max_retries times.
ApiGiveUp ==
    /\ pc = "api_loop"
    /\ attempt >= max_retries
    /\ ApiReturn(<<ERROR, ERROR>>)
    /\ UNCHANGED <<pool, browser, contexts, df_input, idx, products, called,
                   last_resp, api_hist, got_401, extract>>

\* A loop that marks no key on 403/429.
ApiVerdictNoMark(resp) == IF resp.status = 200 THEN "return" ELSE "continue"

\* What lines 236-257 do with a response: "mark" (403/429: the key is marked
\* and the loop continues), "continue" (another status, or an exception),
\* "return" (status 200).
ApiVerdict(resp) ==
    IF resp.status = 0 THEN "continue"
    ELSE IF resp.status \in {403, 429} THEN "mark"
    ELSE IF resp.status # 200 THEN "continue"
    ELSE "return"

\* The value returned for a 200 response, lines 245-253.
ApiResult(resp) ==
    IF ContainsLower(resp.html.body, "captcha") THEN <<CAPTCHA, CAPTCHA>>
    ELSE _parse_amazon_prices(resp.html)

\* _scrape_amazon_api, lines 229-257: the proxy call with the key taken.
ApiCall ==
    /\ pc = "api_call"
    /\ \E resp \in Responses :
          /\ last_resp' = resp
          /\ api_last' = [key_id |-> key_id, status |-> resp.status]
          /\ api_used' = api_used \cup {key_id}
          /\ api_calls' = api_calls + 1
          /\ got_401' = IF resp.status = 401 THEN got_401 \cup {key_id} ELSE got_401
          /\ failed_keys' = IF ApiVerdict(resp) = "mark"
                            THEN _mark_key_failed(failed_keys, key_id)
                            ELSE failed_keys
          /\ IF ApiVerdict(resp) = "return"
             THEN ApiReturn(ApiResult(resp))
             ELSE /\ attempt' = attempt + 1
                  /\ pc' = "api_loop"
                  /\ UNCHANGED <<product, last_result, api_key, key_id>>
    /\ UNCHANGED <<api_keys, current_key_index, browser, contexts, df_input,
                   idx, products, called, api_reset, extract>>

\* The histories of the site-A calls end where the row goes on.
HistoryCleared ==
    /\ last_resp' = NoResp
    /\ api_last' = NoCall
    /\ api_used' = {}
    /\ api_calls' = 0
    /\ api_reset' = FALSE

\* _scrape_ebazaar, lines 312-315: browser.new_context is outside the try, so
\* an exception of it leaves _scrape_ebazaar and run.
EbazaarOpen ==
    /\ pc = "ebazaar"
    /\ \E ok \in BOOLEAN :
          IF ok THEN contexts' = contexts + 1 /\ pc' = "ebazaar_page"
          ELSE contexts' = contexts /\ pc' = "crashed"
    /\ called' = <<"E">>
    /\ last_result' = Pending
    /\ HistoryCleared
    /\ UNCHANGED <<pool, browser, df_input, idx, product, products, api_locals,
                   got_401, extract>>

\* A site-B fetch that takes a key from the pool.
EbazaarFetchWithKey ==
    /\ pc = "ebazaar_page"
    /\ LET r == _get_next_api_key(api_keys, current_key_index, failed_keys)
       IN  current_key_index' = r.index /\ failed_keys' = r.failed
    /\ \E out \in EbazaarOutcomes :
          LET res == EbazaarResult(out)
          IN  /\ last_result' = res
              /\ product' = [product EXCEPT !.ebazaar_mrp = res[1],
                                            !.ebazaar_selling_price = res[2]]
              /\ contexts' = contexts - 1
              /\ pc' = "append"
    /\ UNCHANGED <<api_keys, browser, df_input, idx, products, api_locals,
                   called, last_resp, api_hist, got_401, extract>>

\* _scrape_ebazaar, lines 316-368: context.new_page is outside the try too (and
\* then the context is not closed); the rest is inside it.
EbazaarFetch ==
    /\ pc = "ebazaar_page"
    /\ \E out \in EbazaarOutcomes :
          IF out.kind = "page_fail"
          THEN /\ pc' = "crashed"
               /\ UNCHANGED <<contexts, product, last_result>>
          ELSE LET res == EbazaarResult(out)
               IN  /\ last_result' = res
                   /\ product' = [product EXCEPT !.ebazaar_mrp = res[1],
                                                 !.ebazaar_selling_price = res[2]]
                   /\ contexts' = contexts - 1
                   /\ pc' = "append"
    /\ UNCHANGED <<pool, browser, df_input, idx, products, api_locals, called,
                   last_resp, api_hist, got_401, extract>>

\* run, line 113: the row is appended.
AppendProduct ==
    /\ pc = "append"
    /\ products' = Append(products, product)
    /\ idx' = idx + 1
    /\ pc' = "row"
    /\ called' = <<>>
    /\ last_result' = Pending
    /\ HistoryCleared
    /\ UNCHANGED <<pool, browser, contexts, df_input, product, api_locals,
                   got_401, extract>>

\* run, lines 120-122: after the last row the browser is closed.
Finish ==
    /\ pc = "row"
    /\ idx >= total
    /\ browser' = "closed"
    /\ pc' = "done"
    /\ UNCHANGED <<pool, contexts, df_input, idx, product, products, api_locals,
                   call_hist, api_hist, got_401, extract>>

Next ==
    \/ SetupBrowser
    \/ RowStart
    \/ AmazonDirect
    \/ PlaywrightOpen
    \/ PlaywrightFetch
    \/ ApiEnter
    \/ ApiNextKey
    \/ ApiGiveUp
    \/ ApiCall
    \/ EbazaarOpen
    \/ EbazaarFetch
    \/ AppendProduct
    \/ Finish

Spec == Init /\ [][Next]_vars

\* ------------------------------------------ the pure functions on their own
\* A second specification applies _parse_amazon_prices, the site-B script and
\* the acceptance test of the cascade to inputs wider than the pages of Spec.

\* What select_one can return for a selling selector and for an mrp selector.
SellingEls == {NoEl, El("$10", FALSE, FALSE), El("$20", TRUE, FALSE),
               El("10", FALSE, FALSE)}

MrpEls == {NoEl, El("$20", FALSE, TRUE), El("10", FALSE, TRUE)}

\* Pages for _parse_amazon_prices: an element or none for each of the five
\* selling selectors and each of the four mrp selectors.
ParserPages ==
    {[selling |-> s, mrp |-> m, body |-> <<>>] :
        s \in SellingEls \X SellingEls \X SellingEls \X SellingEls \X SellingEls,
        m \in MrpEls \X MrpEls \X MrpEls \X MrpEls}

\* The regular-expression matches a price container's text can give.
TokenLists == {<<>>, <<"$10">>, <<"$10", "$20">>, <<"$20", "$10">>}

ContainerLists == UNION {[1..n -> TokenLists] : n \in 0..MaxContainers}

\* Pages for the script of _scrape_ebazaar.
ScriptPages == {BPage(f, o, c) : f \in {NONE, EMPTY, "10"},
                                 o \in {NONE, EMPTY, "20"},
                                 c \in ContainerLists}

ScriptOutcomes == {[kind |-> "ok", page |-> g] : g \in ScriptPages}
                  \cup {[kind |-> "nav_fail", page |-> BPage(NONE, NONE, <<>>)]}

\* Values a price field can be handed to _is_valid_price with.
PriceValues == {NA, ERROR, CAPTCHA, "Blocked", EMPTY, NOKEY, NONE, "$10", "$20"}

Docs == {[kind |-> "A", html |-> h] : h \in ParserPages}
        \cup {[kind |-> "B", out |-> o] : o \in ScriptOutcomes}
        \cup {[kind |-> "V", stage |-> s, mrp |-> m, selling |-> v] :
                 s \in {"A", "B", "C"}, m \in PriceValues, v \in PriceValues}

\* One row with a site-A link is being processed; the function's input is doc.
ExtractInit ==
    /\ api_keys = <<>>
    /\ current_key_index = 0
    /\ failed_keys = {}
    /\ browser = "open"
    /\ contexts = 0
    /\ df_input = <<[model_name |-> 1, amazon_link |-> URL_A, ebazaar_link |-> NAN]>>
    /\ idx = 0
    /\ product = ProductComparison(df_input[1])
    /\ products = <<>>
    /\ pc = "extract"
    /\ attempt = 0
    /\ api_key = 0
    /\ key_id = 0
    /\ called = <<>>
    /\ last_result = Pending
    /\ last_resp = NoResp
    /\ api_last = NoCall
    /\ api_used = {}
    /\ api_calls = 0
    /\ api_reset = FALSE
    /\ got_401 = {}
    /\ doc \in Docs
    /\ doc_out = Pending

\* _parse_amazon_prices(html)
ParsePage ==
    /\ pc = "extract"
    /\ doc.kind = "A"
    /\ doc_out' = _parse_amazon_prices(doc.html)
    /\ pc' = "extracted"
    /\ UNCHANGED <<pool, browser, contexts, df_input, idx, product, products,
                   api_locals, call_hist, api_hist, got_401, doc>>

\* _scrape_ebazaar, lines 318-366, once context and page are there.
EvaluatePage ==
    /\ pc = "extract"
    /\ doc.kind = "B"
    /\ doc_out' = EbazaarResult(doc.out)
    /\ pc' = "extracted"
    /\ UNCHANGED <<pool, browser, contexts, df_input, idx, product, products,
                   api_locals, call_hist, api_hist, got_401, doc>>

\* _scrape_amazon, lines 142-161: the acceptance test of the stage on the pair
\* the stage's method returned; doc_out is what _is_valid_price says of it.
AcceptResult ==
    /\ pc = "extract"
    /\ doc.kind = "V"
    /\ doc_out' = <<_is_valid_price(doc.mrp, doc.selling)>>
    /\ IF doc.stage = "C"
       THEN ApiReturn(<<doc.mrp, doc.selling>>)
       ELSE /\ CascadeStep(<<doc.mrp, doc.selling>>, doc.stage, "rejected")
            /\ UNCHANGED <<last_result, api_locals>>
    /\ UNCHANGED <<pool, browser, contexts, df_input, idx, products, called,
                   last_resp, api_hist, got_401, doc>>

ExtractNext ==
    \/ ParsePage
    \/ EvaluatePage
    \/ AcceptResult

ExtractSpec == ExtractInit /\ [][ExtractNext]_vars

\* ------------------------------------------------- the key pool on its own
\* A third specification calls the two methods of the pool in any order on the
\* pool __init__ builds: _get_next_api_key, and _mark_key_failed with any id.
\* doc is the last call made, doc_out the ids _get_next_api_key has returned.
PoolInit ==
    /\ api_keys \in KeyLists
    /\ current_key_index = 0
    /\ failed_keys = {}
    /\ browser = "none"
    /\ contexts = 0
    /\ df_input = <<>>
    /\ idx = 0
    /\ product = NoProduct
    /\ products = <<>>
    /\ pc = "pool"
    /\ attempt = 0
    /\ api_key = 0
    /\ key_id = 0
    /\ called = <<>>
    /\ last_result = Pending
    /\ last_resp = NoResp
    /\ api_last = NoCall
    /\ api_used = {}
    /\ api_calls = 0
    /\ api_reset = FALSE
    /\ got_401 = {}
    /\ doc = NoDoc
    /\ doc_out = <<>>

\* self._get_next_api_key()
PoolNext ==
    /\ pc = "pool"
    /\ Len(doc_out) < MaxCalls
    /\ LET r == _get_next_api_key(api_keys, current_key_index, failed_keys)
       IN  /\ current_key_index' = r.index
           /\ failed_keys' = r.failed
           /\ doc' = [kind |-> "next", reset |-> r.reset]
           /\ doc_out' = Append(doc_out, r.key_id)
    /\ UNCHANGED <<api_keys, browser, contexts, df_input, idx, product, products,
                   pc, api_locals, call_hist, api_hist, got_401>>

\* self._mark_key_failed(key_id), for any id of the list; doc.was tells
\* whether the id was marked already.
PoolMark ==
    /\ pc = "pool"
    /\ \E kid \in 1..Len(api_keys) :
          /\ failed_keys' = _mark_key_failed(failed_keys, kid)
          /\ doc' = [kind |-> "mark", key_id |-> kid, was |-> kid \in failed_keys]
    /\ UNCHANGED <<api_keys, current_key_index, browser, contexts, df_input, idx,
                   product, products, pc, api_locals, call_hist, api_hist,
                   got_401, doc_out>>

PoolStep ==
    \/ PoolNext
    \/ PoolMark

PoolSpec == PoolInit /\ [][PoolStep]_vars

\* --------------------------------------------- _scrape_amazon_api on its own
\* A fourth specification runs one call of _scrape_amazon_api, after methods A
\* and B have failed for the row, on pools of up to ProxyKeys keys in any state
\* earlier rows can have left them in.
ProxyKeyLists == {[i \in 1..n |-> i + 100] : n \in 0..ProxyKeys}

ProxyInit ==
    /\ api_keys \in ProxyKeyLists
    /\ current_key_index \in {c \in 0..ProxyKeys : c = 0 \/ c < Len(api_keys)}
    /\ failed_keys \in SUBSET (1..Len(api_keys))
    /\ browser = "open"
    /\ contexts = 0
    /\ df_input = <<[model_name |-> 1, amazon_link |-> URL_A, ebazaar_link |-> NAN]>>
    /\ idx = 0
    /\ product = ProductComparison(df_input[1])
    /\ products = <<>>
    /\ pc = "amazon_api"
    /\ attempt = 0
    /\ api_key = 0
    /\ key_id = 0
    /\ called = <<"A", "B">>
    /\ last_result = <<NA, NA>>
    /\ last_resp = NoResp
    /\ api_last = NoCall
    /\ api_used = {}
    /\ api_calls = 0
    /\ api_reset = FALSE
    /\ got_401 = {}
    /\ doc = NoDoc
    /\ doc_out = Pending

ProxyNext ==
    \/ ApiEnter
    \/ ApiNextKey
    \/ ApiGiveUp
    \/ ApiCall

ProxySpec == ProxyInit /\ [][ProxyNext]_vars

\* ================================================================== claims
\* The sentinels and the usable test as the specification words them.
Sentinels == {NA, ERROR, CAPTCHA, NOKEY, EMPTY}

Usable(res) == res[1] \notin Sentinels /\ res[2] \notin Sentinels

IsBlank(link) == link \in {NAN, EMPTY, " "}

AllKeyIds == 1..Len(api_keys)

AmazonPcs == {"amazon_direct", "amazon_playwright", "amazon_playwright_page",
              "amazon_api", "api_loop", "api_call"}

EbazaarPcs == {"ebazaar", "ebazaar_page"}

\* _get_next_api_key has just returned a key to _scrape_amazon_api.
KeyHandedOut == pc = "api_loop" /\ pc' = "api_call"

\* _scrape_amazon has returned for the row and nothing has happened since.
CascadeReturned == pc \in {"ebazaar", "append"} /\ Len(called) > 0 /\ called[1] = "A"

\* C1: once the proxy has answered 401 for a key, no later call of
\* _get_next_api_key returns that key, for this row or a later one.
C1_AuthInvalidNeverReoffered ==
    [][KeyHandedOut => key_id' \notin got_401]_vars

\* C2: once every key of a non-empty pool is auth-invalid (has answered 401),
\* a call of _get_next_api_key hands out no key.
C2_AllAuthInvalidExhausted ==
    [][(pc = "api_loop" /\ attempt < max_retries /\ Len(api_keys) > 0
        /\ got_401 = AllKeyIds) => pc' # "api_call"]_vars

\* C3: when every key of a non-empty pool is in failed_keys, the next call of
\* _get_next_api_key empties failed_keys and returns the first key of the list.
C3_FullExhaustionResets ==
    [][(pc = "api_loop" /\ attempt < max_retries /\ Len(api_keys) > 0
        /\ failed_keys = AllKeyIds)
       => (/\ pc' = "api_call"
           /\ failed_keys' = {}
           /\ key_id' = 1
           /\ api_key' = api_keys[1]
           /\ current_key_index' = 1 % Len(api_keys))]_vars

C3_Witness ==
    pc = "api_call" /\ api_reset /\ key_id = 1 /\ failed_keys = {}

\* C4: a key that _get_next_api_key returns is not in failed_keys after the
\* call, and was not in it before the call unless the call found every key
\* failed and cleared the set.
C4_ReturnedKeyNotFailed ==
    [][KeyHandedOut
       => (/\ key_id' \notin failed_keys'
           /\ key_id' \in failed_keys
                => (failed_keys = AllKeyIds /\ failed_keys' = {}))]_vars

C4_Witness ==
    pc = "api_call" /\ ~api_reset /\ failed_keys # {} /\ key_id \notin failed_keys

\* C5: for a site-A link the methods are called in the order A, B, C, each
\* only after every earlier one returned an unusable result, and the cascade
\* returns at the first usable result (then no later method and no key is used).
C5_CascadeOrder ==
    /\ pc = "amazon_direct" => called = <<>>
    /\ pc = "amazon_playwright" => called = <<"A">> /\ ~Usable(last_result)
    /\ pc = "amazon_playwright_page" => called = <<"A", "B">> /\ api_calls = 0
    /\ pc = "amazon_api" => called = <<"A", "B">> /\ ~Usable(last_result)
    /\ pc \in {"api_loop", "api_call"} => called = <<"A", "B", "C">>
    /\ pc \in {"amazon_direct", "amazon_playwright", "amazon_api"} => api_calls = 0
    /\ CascadeReturned =>
         /\ called \in {<<"A">>, <<"A", "B">>, <<"A", "B", "C">>}
         /\ Len(called) < 3 => Usable(last_result) /\ api_calls = 0
         /\ product.amazon_method = "A" <=> (called = <<"A">>)
         /\ product.amazon_method = "B" <=> (called = <<"A", "B">>)
         /\ product.amazon_method \in {"C", "X"} <=> (called = <<"A", "B", "C">>)

C5_Witness ==
    CascadeReturned /\ called = <<"A">> /\ product.amazon_method = "A"
    /\ Usable(last_result)

\* C6: a site-A result tagged X has sentinels in both price fields, and a
\* result with a currency string in a price field is not tagged X.
FailedIffSentinels(p) ==
    p.amazon_method = "X"
        => p.amazon_mrp \in Sentinels /\ p.amazon_selling_price \in Sentinels

C6_FailedHasSentinels ==
    /\ CascadeReturned => FailedIffSentinels(product)
    /\ \A i \in 1..Len(products) : FailedIffSentinels(products[i])

\* C7: no failure while a row is processed leaves run; the finished run has
\* one row per input row.
C7_NoFailureAbortsRun ==
    /\ pc # "crashed"
    /\ pc = "done" => Len(products) = Len(df_input)

\* C8: for a blank or absent link no method is called for that site, its
\* result fields stay empty and no key is asked for.
AmazonEmpty(p) ==
    p.amazon_mrp = EMPTY /\ p.amazon_selling_price = EMPTY /\ p.amazon_method = EMPTY

EbazaarEmpty(p) == p.ebazaar_mrp = EMPTY /\ p.ebazaar_selling_price = EMPTY

C8_BlankLinkSkipped ==
    /\ pc \in AmazonPcs => ~IsBlank(row.amazon_link)
    /\ pc \in EbazaarPcs => ~IsBlank(row.ebazaar_link)
    /\ (pc \in EbazaarPcs \cup {"append"} /\ IsBlank(row.amazon_link))
         => /\ AmazonEmpty(product)
            /\ \A i \in 1..Len(called) : called[i] \notin {"A", "B", "C"}
            /\ api_calls = 0
    /\ (pc = "append" /\ IsBlank(row.ebazaar_link))
         => EbazaarEmpty(product) /\ (\A i \in 1..Len(called) : called[i] # "E")
    /\ \A i \in 1..Len(products) :
         /\ IsBlank(df_input[i].amazon_link) => AmazonEmpty(products[i])
         /\ IsBlank(df_input[i].ebazaar_link) => EbazaarEmpty(products[i])

C8_Witness ==
    /\ pc = "append"
    /\ product.amazon_link = " "
    /\ AmazonEmpty(product)
    /\ product.ebazaar_link = URL_B
    /\ ~EbazaarEmpty(product)
    /\ Len(products) = 1
    /\ products[1].ebazaar_link = NAN
    /\ EbazaarEmpty(products[1])
    /\ ~AmazonEmpty(products[1])

\* C9: a direct request answered 200 with a body that holds "captcha" in any
\* case gives CAPTCHA, not prices; the result is not usable and method B is next.
HasCaptchaWord(body) ==
    \E i \in 1..Len(body) : body[i] \in {"captcha", "CAPTCHA", "Captcha"}

C9_DirectCaptchaIsChallenge ==
    (called = <<"A">> /\ last_resp.status = 200 /\ HasCaptchaWord(last_resp.html.body))
        => /\ last_result = <<CAPTCHA, CAPTCHA>>
           /\ ~Usable(last_result)
           /\ pc = "amazon_playwright"

C9_Witness ==
    /\ called = <<"A">>
    /\ last_resp.status = 200
    /\ last_resp.html.body = <<"CAPTCHA">>
    /\ Usable(_parse_amazon_prices(last_resp.html))
    /\ pc = "amazon_playwright"

\* C10: a 401 of the proxy does not use up one of the row's proxy attempts:
\* the loop index of _scrape_amazon_api is the same after it.
C10_401KeepsRetryBudget ==
    [][(pc = "api_call" /\ api_calls' = api_calls + 1 /\ api_last'.status = 401)
       => (pc' = "api_loop" /\ attempt' = attempt)]_vars

\* The proxy call of this step was answered with a status in sts.
ProxyAnswered(sts) ==
    pc = "api_call" /\ api_calls' = api_calls + 1 /\ api_last'.status \in sts

\* C11: a 5xx answer of the proxy marks the key in no failure set, and the
\* next proxy attempt for the row uses the same key again.
C11_5xxRetriesSameKey ==
    [][/\ ProxyAnswered({500}) => failed_keys' = failed_keys
       /\ (KeyHandedOut /\ api_last.status = 500) => key_id' = api_last.key_id]_vars

\* C12: a 200 answer of the proxy whose body holds a bot-challenge marker
\* does not end method C while attempts remain: the loop goes on to the next key.
C12_ProxyCaptchaTriesNextKey ==
    [][(ProxyAnswered({200}) /\ HasCaptchaWord(last_resp'.html.body)
        /\ attempt + 1 < max_retries)
       => (pc' = "api_loop" /\ attempt' = attempt + 1)]_vars

\* C13: when the proxy answers 403 or 429 for a key, the key's id is in
\* failed_keys as the call ends (so before _get_next_api_key is called again),
\* and the loop continues without using the body: nothing is returned or stored.
C13_QuotaMarkedBeforeNextKey ==
    [][/\ ProxyAnswered({403, 429})
            => /\ key_id \in failed_keys'
               /\ pc' = "api_loop"
               /\ product' = product
               /\ last_result' = last_result
       /\ (pc = "api_loop" /\ api_last.status \in {403, 429})
            => api_last.key_id \in failed_keys]_vars

\* A 429 marked its key and the loop has taken the next key.
C13_Witness ==
    /\ pc = "api_call"
    /\ api_last.status = 429
    /\ api_last.key_id \in failed_keys
    /\ key_id # api_last.key_id

\* C14: every step of the processing of a site-B URL is a step of the rendered
\* browser: it makes no direct request and no proxy call, takes no key, and
\* leaves api_keys, current_key_index and failed_keys as they were, whether the
\* fetch succeeds, fails to navigate or fails to open its context or page.
C14_EbazaarOnlyBrowser ==
    [][(pc \in EbazaarPcs)
         => (/\ pool' = pool
             /\ api_key' = api_key
             /\ key_id' = key_id
             /\ api_calls' = 0
             /\ api_used' = {}
             /\ called' = <<"E">>
             /\ pc' \in {"ebazaar_page", "append", "crashed"})]_vars

\* A site-B fetch failed to navigate while a key of the pool was marked failed.
C14_Witness ==
    /\ pc = "append"
    /\ called = <<"E">>
    /\ last_result = <<ERROR, ERROR>>
    /\ failed_keys # {}
    /\ current_key_index # 0

\* C15: outside a rendered-browser call no browsing context is open: every
\* context a call of _scrape_amazon_playwright or _scrape_ebazaar opened is
\* closed when the call has returned or raised.
C15_NoContextOutsideCall ==
    pc \notin {"amazon_playwright_page", "ebazaar_page"} => contexts = 0

C17_FailedCarriesLastResult ==
    CascadeReturned =>
        /\ (called = <<"A", "B", "C">> /\ ~Usable(last_result))
              => /\ product.amazon_method = "X"
                 /\ <<product.amazon_mrp, product.amazon_selling_price>> = last_result
        /\ product.amazon_method = "X"
              => (called = <<"A", "B", "C">> /\ ~Usable(last_result))

\* The proxy loop ran out of attempts after A and B failed: the row carries
\* the "Error" pair that only method C produces.
C17_Witness ==
    /\ CascadeReturned
    /\ called = <<"A", "B", "C">>
    /\ last_result = <<ERROR, ERROR>>
    /\ product.amazon_method = "X"
    /\ product.amazon_mrp = ERROR

\* The appended row o holds everything run has to fill in for the input row r.
RowComplete(o, r) ==
    /\ o.model_name = r.model_name
    /\ o.amazon_link = r.amazon_link
    /\ o.ebazaar_link = r.ebazaar_link
    /\ ~IsBlank(r.amazon_link) => o.amazon_method \in {"A", "B", "C", "X"}
    /\ ~IsBlank(r.ebazaar_link)
          => (o.ebazaar_mrp # EMPTY /\ o.ebazaar_selling_price # EMPTY)

\* C18: products holds, in the order of the input, one completely filled row
\* for each of the first Len(products) input rows and nothing else; it changes
\* only by the append of the current row after both of its sites are settled;
\* and when run has ended normally every input row has its one row.
C18_AppendedInOrderOnceComplete ==
    /\ Len(products) = idx
    /\ Len(products) <= total
    /\ \A i \in 1..Len(products) : RowComplete(products[i], df_input[i])
    /\ pc \in AmazonPcs \cup EbazaarPcs \cup {"append"} => Len(products) < total
    /\ pc = "done" => Len(products) = total

\* Two rows with both links have been appended.
C18_Witness ==
    /\ Len(products) = 2
    /\ products[1].model_name = 1
    /\ products[2].model_name = 2
    /\ \A i \in 1..2 : /\ ~IsBlank(df_input[i].amazon_link)
                       /\ ~IsBlank(df_input[i].ebazaar_link)
                       /\ products[i].ebazaar_selling_price = "$10.00"

\* Texts that are a price: they carry a currency sign.
PriceTexts == {"$10", "$20", "₹20"}

\* The selling rules of the input find a price: on site A an element with a
\* price text outside any struck-through or a-text-price block, on site B the
\* finalPrice amount or a price in a container.
SellingFound(d) ==
    IF d.kind = "A"
    THEN \E i \in 1..Len(d.html.selling) :
            LET el == d.html.selling[i]
            IN  el # NoEl /\ el.text \in PriceTexts /\ ~el.strike /\ ~el.textprice
    ELSE /\ d.out.kind = "ok"
         /\ \/ d.out.page.finalPrice \notin {NONE, EMPTY}
            \/ \E i \in 1..Len(d.out.page.containers) :
                  Len(d.out.page.containers[i]) >= 1

\* The reference rules of the input find a price: on site A an element with a
\* price text, on site B the oldPrice amount or a container with two prices.
ReferenceFound(d) ==
    IF d.kind = "A"
    THEN \E i \in 1..Len(d.html.mrp) :
            d.html.mrp[i] # NoEl /\ d.html.mrp[i].text \in PriceTexts
    ELSE /\ d.out.kind = "ok"
         /\ \/ d.out.page.oldPrice \notin {NONE, EMPTY}
            \/ \E i \in 1..Len(d.out.page.containers) :
                  Len(d.out.page.containers[i]) >= 2

\* C19: for every input of the site-A parser and of the site-B extraction, if
\* the selling rules find a price and the reference rules find none, the
\* returned reference price equals the returned selling price; and the
\* returned reference price is a sentinel only if the selling price is one.
C19_DefaultFill ==
    (pc = "extracted" /\ doc.kind \in {"A", "B"})
        => /\ (SellingFound(doc) /\ ~ReferenceFound(doc)) => doc_out[1] = doc_out[2]
           /\ doc_out[1] \in Sentinels => doc_out[2] \in Sentinels

\* A site-A page with a selling price and no reference price was parsed: both
\* returned prices are the selling price.
C19_Witness ==
    /\ pc = "extracted"
    /\ doc.kind = "A"
    /\ SellingFound(doc)
    /\ ~ReferenceFound(doc)
    /\ doc_out = <<"$10", "$10">>

\* The same on site B, from the single price of a container.
C19_WitnessB ==
    /\ pc = "extracted"
    /\ doc.kind = "B"
    /\ SellingFound(doc)
    /\ ~ReferenceFound(doc)
    /\ doc_out = <<"$10", "$10">>

\* The stage doc.stage of the cascade accepted the pair it was given: the row
\* carries the pair under the stage's tag.
StageAccepted == product.amazon_method = doc.stage

\* C20: _is_valid_price returns true exactly when neither price is one of the
\* sentinels N/A, Error, CAPTCHA, No API Key and the empty string, and each of
\* the three stages of the site-A cascade accepts a pair exactly then.
C20_UsableIffNoSentinel ==
    (doc.kind = "V" /\ pc # "extract")
        => /\ doc_out[1] = Usable(<<doc.mrp, doc.selling>>)
           /\ StageAccepted = Usable(<<doc.mrp, doc.selling>>)

\* The values the test of the code rejects: the sentinels, "Blocked" and None.
Rejected == Sentinels \cup {"Blocked", NONE}

\* C20, amended: _is_valid_price returns true exactly when neither price is one
\* of N/A, Error, CAPTCHA, Blocked, No API Key, the empty string and None, and
\* each of the three stages of the site-A cascade accepts a pair exactly then.
C20_UsableIffNotRejected ==
    (doc.kind = "V" /\ pc # "extract")
        => /\ doc_out[1] = (doc.mrp \notin Rejected /\ doc.selling \notin Rejected)
           /\ StageAccepted = (doc.mrp \notin Rejected /\ doc.selling \notin Rejected)

\* Stage B was handed "Blocked" with a price: the test said no and the cascade
\* went on.
C20_Witness ==
    /\ doc.kind = "V"
    /\ pc = "rejected"
    /\ doc.stage = "B"
    /\ doc.mrp = "Blocked"
    /\ doc.selling = "$10"
    /\ doc_out = <<FALSE>>
    /\ product.amazon_method = EMPTY

\* The step is a call of _mark_key_failed(kid) on the pool on its own.
MarkStep(kid) ==
    pc = "pool" /\ doc'.kind = "mark" /\ doc'.key_id = kid /\ doc_out' = doc_out

\* C21: a mark adds its id to failed_keys and does nothing else: every id
\* marked before stays marked, marking an id that is marked already leaves the
\* pool as it was, and the list and the cursor are not touched; an id leaves
\* failed_keys only when _get_next_api_key finds every key failed and clears
\* the set.
C21_MarkIdempotentMonotonic ==
    [][/\ \A kid \in AllKeyIds :
            MarkStep(kid) => /\ failed_keys' = failed_keys \cup {kid}
                             /\ failed_keys \subseteq failed_keys'
                             /\ kid \in failed_keys => pool' = pool
                             /\ api_keys' = api_keys
                             /\ current_key_index' = current_key_index
                             /\ got_401' = got_401
       /\ ~(failed_keys \subseteq failed_keys')
            => /\ doc'.kind = "next"
               /\ failed_keys = AllKeyIds
               /\ failed_keys' = {}]_vars

\* An id that was marked already has been marked again, next to another
\* marked id.
C21_Witness ==
    /\ pc = "pool"
    /\ doc.kind = "mark"
    /\ doc.was
    /\ doc.key_id \in failed_keys
    /\ failed_keys # {doc.key_id}

\* The most keys one call of _scrape_amazon_api may take: min(3, number of keys).
Rotations == IF Len(api_keys) < 3 THEN Len(api_keys) ELSE 3

\* Keys the running call of _scrape_amazon_api has been handed so far.
KeysRequested == api_calls + (IF pc = "api_call" THEN 1 ELSE 0)

\* _scrape_amazon_api has returned to _scrape_amazon.
ApiReturned == pc \notin AmazonPcs /\ Len(called) = 3 /\ called[3] = "C"

\* C22: one call of _scrape_amazon_api takes at most min(3, number of keys)
\* keys and makes at most that many proxy calls, whatever the proxy answers;
\* once that many attempts are spent its next step is the return; and with a
\* non-empty pool what it returns is a parsed pair of prices, the CAPTCHA pair
\* or the Error pair.
C22_BoundedRotations ==
    /\ [](/\ KeysRequested <= Rotations
          /\ api_calls <= Rotations
          /\ Cardinality(api_used) <= Rotations
          /\ (ApiReturned /\ Len(api_keys) > 0)
                => \/ last_result \in {<<ERROR, ERROR>>, <<CAPTCHA, CAPTCHA>>}
                   \/ /\ last_resp.status = 200
                      /\ last_result[2] \in PriceTexts \cup {NA})
    /\ [][(pc = "api_loop" /\ attempt >= Rotations)
             => (pc' \notin AmazonPcs /\ last_result' = <<ERROR, ERROR>>)]_vars

\* On a pool of four keys the call has spent its three attempts and returned
\* the Error pair.
C22_Witness ==
    /\ Len(api_keys) = 4
    /\ ApiReturned
    /\ api_calls = 3
    /\ Cardinality(api_used) = 3
    /\ last_result = <<ERROR, ERROR>>

\* C23: while failed_keys is empty, _get_next_api_key returns the key under
\* the cursor and moves the cursor one place on, wrapping at the end of the
\* list, so that n calls in a row return the n keys once each in list order;
\* two calls in a row for one row return neighbours in that order; and nothing
\* but _get_next_api_key moves the cursor, which therefore stands for the next
\* row where the last row left it.
C23_RoundRobinPersists ==
    /\ []((pc = "api_call" /\ api_calls >= 1 /\ failed_keys = {} /\ ~api_reset)
             => key_id = (api_last.key_id % Len(api_keys)) + 1)
    /\ [][/\ (KeyHandedOut /\ failed_keys = {})
               => /\ key_id' = current_key_index + 1
                  /\ api_key' = api_keys[current_key_index + 1]
                  /\ current_key_index' = (current_key_index + 1) % Len(api_keys)
                  /\ failed_keys' = {}
          /\ (pc # "api_loop") => current_key_index' = current_key_index]_vars

\* The first key the second row is handed is the second of the list: the first
\* row took the first and the cursor stayed.
C23_Witness ==
    /\ idx = 1
    /\ pc = "api_call"
    /\ api_calls = 0
    /\ failed_keys = {}
    /\ Len(api_keys) = 2
    /\ Len(products) = 1
    /\ products[1].amazon_method = "C"
    /\ key_id = 2

\* C24: the proxy calls made for one row use pairwise distinct keys: there are
\* as many keys used as calls made.
C24_KeysDistinctPerRow ==
    api_calls = Cardinality(api_used)

\* C25: throughout a run with a non-empty list of n keys the cursor is one of
\* 0..n-1 and failed_keys holds ids of 1..n only, and no step of the run
\* changes the list: it stays the list __init__ loaded.
C25_PoolWellFormed ==
    /\ [](Len(api_keys) > 0
            => /\ current_key_index \in 0..(Len(api_keys) - 1)
               /\ failed_keys \subseteq 1..Len(api_keys))
    /\ [][api_keys' = api_keys]_vars

\* The only key of a one-key list was failed; _get_next_api_key has cleared
\* the set, returned the key and left the cursor on it.
C25_Witness ==
    /\ Len(api_keys) = 1
    /\ pc = "api_call"
    /\ api_reset
    /\ key_id = 1
    /\ current_key_index = 0
    /\ failed_keys = {}

\* C26: no step of the run outside _scrape_amazon_api changes the list, the
\* cursor or failed_keys, so methods A and B leave the pool as it was; and a
\* row that method A or B resolved was resolved without method C: no key was
\* taken and no proxy call made for it.
C26_FreeStrategiesLeavePool ==
    /\ []((CascadeReturned /\ product.amazon_method \in {"A", "B"})
             => /\ called \in {<<"A">>, <<"A", "B">>}
                /\ api_calls = 0
                /\ api_used = {}
                /\ key_id = 0)
    /\ [][(pc \notin {"api_loop", "api_call"}) => pool' = pool]_vars

\* Method B resolved the second row after the first row had taken keys and
\* left one marked failed.
C26_Witness ==
    /\ CascadeReturned
    /\ idx = 1
    /\ product.amazon_method = "B"
    /\ called = <<"A", "B">>
    /\ products[1].amazon_method \in {"C", "X"}
    /\ failed_keys # {}

\* C27: with an empty list of keys method C takes no key and makes no proxy
\* call, and returns "No API Key" for both prices, so that a row whose methods
\* A and B gave nothing usable ends tagged "X" with "No API Key" in both
\* site-A price fields; and _get_next_api_key on an empty list returns None and
\* leaves the cursor and failed_keys as they are.
C27_EmptyPoolNoCredential ==
    Len(api_keys) = 0
       => /\ pc \notin {"api_loop", "api_call"}
          /\ api_calls = 0
          /\ api_used = {}
          /\ key_id = 0
          /\ current_key_index = 0
          /\ failed_keys = {}
          /\ (CascadeReturned /\ Len(called) = 3)
                => /\ last_result = <<NOKEY, NOKEY>>
                   /\ product.amazon_method = "X"
                   /\ product.amazon_mrp = NOKEY
                   /\ product.amazon_selling_price = NOKEY
          /\ LET r == _get_next_api_key(api_keys, current_key_index, failed_keys)
             IN  /\ r.key = NONE
                 /\ r.key_id = 0
                 /\ r.index = current_key_index
                 /\ r.failed = failed_keys

\* Without keys, a row whose methods A and B failed has come back from method
\* C tagged "X" with "No API Key".
C27_Witness ==
    /\ Len(api_keys) = 0
    /\ CascadeReturned
    /\ called = <<"A", "B", "C">>
    /\ product.amazon_method = "X"
    /\ product.amazon_mrp = NOKEY
    /\ product.amazon_selling_price = NOKEY

====
